---- MODULE Spec2Model ----
(***************************************************************************)
(* erlySense waitlist flow.                                                *)
(*                                                                         *)
(*   - the intake handler  onRequestPost  (functions/api/interest.ts)      *)
(*   - the client form controller  handleSubmit / validateEmail  (App)     *)
(*                                                                         *)
(* Strings are sequences of one-character strings, so that trimming,       *)
(* escaping and the e-mail pattern are computed character by character.    *)
(***************************************************************************)
EXTENDS Integers, Sequences, FiniteSets

VARIABLES
    \* ---- intake handler and its collaborators
    env,        \* the bindings: WAITLIST, RESEND_API_KEY, NOTIFY_TO
    kv,         \* the WAITLIST namespace: key -> stored value
    now,        \* the wall clock in milliseconds (Date.now())
    hpc,        \* where the current invocation of onRequestPost stands
    req,        \* the locals and the effects of the current invocation
    served,     \* invocations started
    accepted,   \* invocations answered 200
    accKeys,    \* the keys written by the invocations answered 200
    putsOk,     \* WAITLIST.put calls that resolved
    posts,      \* fetch calls to the e-mail provider
    uuidSeen,   \* the identifiers crypto.randomUUID() has returned
    uuidClash,  \* randomUUID() returned an identifier a second time
    \* ---- client form controller (React state of App)
    email, note, trap, isLoading, status,
    pending,    \* the requests awaiting their response
    fetchCount, \* fetch calls issued by the client
    submits,    \* submit events handled
    lastPath,   \* the path the last handleSubmit call took
    disabled,   \* the submit control's disabled attribute as last rendered
    raced,      \* a submit event was delivered before the re-render
    \* ---- validateEmail applied to a string
    probe,      \* the argument
    verdict     \* the result, once computed

hvars == <<env, kv, now, hpc, req, served, accepted, accKeys, putsOk, posts,
           uuidSeen, uuidClash>>
cvars == <<email, note, trap, isLoading, status, pending, fetchCount, submits,
           lastPath>>
vars  == <<env, kv, now, hpc, req, served, accepted, accKeys, putsOk, posts,
           uuidSeen, uuidClash,
           email, note, trap, isLoading, status, pending, fetchCount, submits,
           lastPath, disabled, raced, probe, verdict>>
rvars == <<disabled, raced>>
pvars == <<probe, verdict>>

\* ------------------------------------------------------------------ bounds
MaxRequests == 2
MaxTime == 1
NumUuids == 2
MaxSubmits == 2
MaxLen == 5

UUIDs == 1..NumUuids

\* ----------------------------------------------------------------- strings
Null == [t |-> "null", v |-> <<>>]
Undefined == [t |-> "undefined", v |-> <<>>]

Whitespace == {" "}

RECURSIVE TrimStart(_)
TrimStart(s) ==
    IF s # <<>> /\ Head(s) \in Whitespace THEN TrimStart(Tail(s)) ELSE s

RECURSIVE TrimEnd(_)
TrimEnd(s) ==
    IF s # <<>> /\ s[Len(s)] \in Whitespace
    THEN TrimEnd(SubSeq(s, 1, Len(s) - 1))
    ELSE s

\* String.prototype.trim
Trim(s) == TrimEnd(TrimStart(s))

\* the character class [^\s@]
NotSpaceNorAt(c) == c \notin Whitespace /\ c # "@"

AllInClass(s, lo, hi) == \A k \in lo..hi : NotSpaceNorAt(s[k])

\* the pattern with its literal dot left out: /^[^\s@]+@[^\s@]+$/
EMAIL_RE_test_noDot(s) ==
    \E i \in 2..Len(s) :
        /\ s[i] = "@"
        /\ i < Len(s)
        /\ AllInClass(s, 1, i - 1)
        /\ AllInClass(s, i + 1, Len(s))

\* EMAIL_RE.test(s): /^[^\s@]+@[^\s@]+\.[^\s@]+$/
\* i is the position of "@", j the position of the "." the pattern's \. takes.
EMAIL_RE_test(s) ==
    \E i \in 2..Len(s) : \E j \in (i + 2)..(Len(s) - 1) :
        /\ s[i] = "@"
        /\ s[j] = "."
        /\ AllInClass(s, 1, i - 1)
        /\ AllInClass(s, i + 1, j - 1)
        /\ AllInClass(s, j + 1, Len(s))

\* the pattern with its dot unescaped, so that it stands for any character
validateEmail_anyDot(e) ==
    \E at \in 1..Len(e) : \E dot \in 1..Len(e) :
        /\ e[at] = "@"
        /\ at > 1 /\ dot > at + 1 /\ dot < Len(e)
        /\ \A k \in 1..Len(e) : k \notin {at, dot} => NotSpaceNorAt(e[k])

\* validateEmail(email) of the client: the same pattern, written out again
validateEmail(e) ==
    \E at \in 1..Len(e) : \E dot \in 1..Len(e) :
        /\ e[at] = "@"
        /\ e[dot] = "."
        /\ at > 1 /\ dot > at + 1 /\ dot < Len(e)
        /\ \A k \in 1..Len(e) : k \notin {at, dot} => NotSpaceNorAt(e[k])

RECURSIVE EscapeLt(_)
\* note.replace(/</g, "&lt;")
EscapeLt(s) ==
    IF s = <<>> THEN <<>>
    ELSE (IF Head(s) = "<" THEN <<"&", "l", "t", ";">> ELSE <<Head(s)>>)
         \o EscapeLt(Tail(s))

\* ------------------------------------------------------------- JSON values
JStr(s) == [t |-> "string", v |-> s]
\* a number or a boolean is held by its decimal or literal spelling
JNum(digits) == [t |-> "number", v |-> digits]
JBool(word) == [t |-> "boolean", v |-> word]
JObj(e, n) == [t |-> "object", email |-> e, note |-> n]

\* ToBoolean(v) = false
Falsy(v) ==
    \/ v.t \in {"undefined", "null"}
    \/ v.t = "string" /\ v.v = <<>>
    \/ v.t = "number" /\ v.v = <<"0">>
    \/ v.t = "boolean" /\ v.v = <<"f", "a", "l", "s", "e">>

\* String(v) for the values a JSON body can hold here
JsString(v) ==
    CASE v.t \in {"string", "number", "boolean"} -> v.v
      [] v.t = "null" -> <<"n", "u", "l", "l">>
      [] OTHER -> <<"u", "n", "d", "e", "f", "i", "n", "e", "d">>

\* data?.email and data?.note
Field(data, name) ==
    IF data.t = "object"
    THEN (IF name = "email" THEN data.email ELSE data.note)
    ELSE Undefined

\* String(x || "").trim()
CoerceTrim(x) == Trim(JsString(IF Falsy(x) THEN JStr(<<>>) ELSE x))

\* await request.json().catch(() => ({}))
ParseBody(body) ==
    IF body.kind = "json" THEN body.data ELSE JObj(Undefined, Undefined)

\* ------------------------------------------------------------------ inputs
ValidEmail == <<"a", "@", "b", ".", "c">>
PaddedEmail == <<" ">> \o ValidEmail \o <<" ">>

EmailInputs ==
    { ValidEmail,
      PaddedEmail,
      <<"a", "@", "b">>,
      <<"a", "b">>,
      <<"a", " ", "@", "b", ".", "c">>,
      <<"@", "b", ".", "c">>,
      <<"a", "@", ".", "c">>,
      <<"a", "@", "b", ".">>,
      <<"a", "@", "@", "b", ".", "c">>,
      <<"a", ".", "b", "@", "c">>,
      <<"a", "@", "b", ".", "c", ".", "d">>,
      <<".", "@", ".", ".", ".">>,
      <<>> }

NoteInputs == { <<>>, <<" ", "<", "n">> }

Bodies ==
    { [kind |-> "garbage"],
      [kind |-> "json", data |-> Null],
      [kind |-> "json", data |-> JNum(<<"7">>)],
      [kind |-> "json", data |-> JObj(Undefined, Undefined)],
      [kind |-> "json", data |-> JObj(JNum(<<"7">>), JBool(<<"t", "r", "u", "e">>))],
      [kind |-> "json", data |-> JObj(JNum(<<"0">>), JStr(<<"n">>))] }
    \cup
    { [kind |-> "json", data |-> JObj(JStr(e), Undefined)] : e \in EmailInputs }
    \cup
    { [kind |-> "json", data |-> JObj(JStr(PaddedEmail), JStr(n))] : n \in NoteInputs }

\* --------------------------------------------------------------- responses
Response200 == [status |-> 200, body |-> [ok |-> TRUE]]
Response400 == [status |-> 400, body |-> [ok |-> FALSE, error |-> "Invalid email"]]
Response500 == [status |-> 500, body |-> [ok |-> FALSE, error |-> "Server error"]]

\* a catch block that puts the error into the body
OnCatch_leak(err) == [status |-> 500, body |-> [ok |-> FALSE, error |-> err]]

\* catch (err) { console.error(err); return 500 "Server error" }
OnCatch(err) == Response500

Truthy(v) == ~Falsy(v)

NotifyConfigured == Truthy(env.RESEND_API_KEY) /\ Truthy(env.NOTIFY_TO)

\* a key that leaves the random identifier out
KeyOf_noUuid(ms, uuid) == <<"waitlist", ms>>

\* `waitlist:${Date.now()}:${crypto.randomUUID()}`; neither the digits nor the
\* identifier holds a ":", so the three parts determine the string.
KeyOf(ms, uuid) == <<"waitlist", ms, uuid>>

NoKey == <<>>
NoMail == [to |-> <<>>, subject |-> <<>>, note |-> <<>>]

FreshReq(body, e, n) ==
    [body |-> body, email |-> e, note |-> n, key |-> NoKey, puts |-> 0,
     posts |-> 0, r |-> "none", mail |-> NoMail, logged |-> <<>>,
     caught |-> "none", responses |-> <<>>]

IdleReq == FreshReq([kind |-> "none"], <<>>, <<>>)

\* ------------------------------------------------------------------- Init
HInit ==
    /\ env \in [WAITLIST : BOOLEAN,
                RESEND_API_KEY : {Undefined, JStr(<<"k">>)},
                NOTIFY_TO : {Undefined, JStr(<<"t">>)}]
    /\ kv = <<>>
    /\ now = 0
    /\ hpc = "idle"
    /\ req = IdleReq
    /\ served = 0
    /\ accepted = 0
    /\ accKeys = {}
    /\ putsOk = 0
    /\ posts = 0
    /\ uuidSeen = {}
    /\ uuidClash = FALSE

CInit ==
    /\ email = <<>>
    /\ note = <<>>
    /\ trap = <<>>
    /\ isLoading = FALSE
    /\ status = Null
    /\ pending = <<>>
    /\ fetchCount = 0
    /\ submits = 0
    /\ lastPath = "none"

\* the control as first rendered: disabled={isLoading} with isLoading false
RInit ==
    /\ disabled = FALSE
    /\ raced = FALSE

PInit ==
    /\ probe = <<>>
    /\ verdict = "unchecked"

Init == HInit /\ CInit /\ RInit /\ PInit

\* ------------------------------------------------------ handler: the steps
\* the invocation ends with `resp`
Finish(r, resp) ==
    /\ req' = [r EXCEPT !.responses = Append(@, resp)]
    /\ hpc' = "done"
    /\ accepted' = IF resp.status = 200 THEN accepted + 1 ELSE accepted
    /\ accKeys' = IF resp.status = 200 /\ r.key # NoKey
                  THEN accKeys \cup {r.key} ELSE accKeys

\* the catch block of onRequestPost
Catch(r, err) ==
    Finish([r EXCEPT !.logged = Append(@, err), !.caught = err], OnCatch(err))

\* lines 30-62 once the store step is over without a throw: with no
\* notification configured the handler goes straight to the 200 response
AfterStore(r) ==
    IF NotifyConfigured
    THEN /\ req' = r
         /\ hpc' = "notify"
         /\ UNCHANGED <<accepted, accKeys>>
    ELSE Finish(r, Response200)

\* lines 12-28 with the validation left out
Request_noValidate(body) ==
    /\ hpc \in {"idle", "done"}
    /\ served < MaxRequests
    /\ served' = served + 1
    /\ LET data == ParseBody(body)
           e == CoerceTrim(Field(data, "email"))
           n == CoerceTrim(Field(data, "note"))
           r == FreshReq(body, e, n)
       IN  IF env.WAITLIST
           THEN /\ req' = r
                /\ hpc' = "store"
                /\ UNCHANGED <<accepted, accKeys>>
           ELSE AfterStore(r)
    /\ UNCHANGED <<env, kv, now, putsOk, posts, uuidSeen, uuidClash>>
    /\ UNCHANGED <<cvars, rvars, pvars>>

\* lines 12-20, 31: parse, coerce, trim, validate; then up to the first await
\* of a side effect
Request(body) ==
    /\ hpc \in {"idle", "done"}
    /\ served < MaxRequests
    /\ served' = served + 1
    /\ LET data == ParseBody(body)
           e == CoerceTrim(Field(data, "email"))
           n == CoerceTrim(Field(data, "note"))
           r == FreshReq(body, e, n)
       IN  IF ~EMAIL_RE_test(e)
           THEN Finish(r, Response400)
           ELSE IF env.WAITLIST
                THEN /\ req' = r
                     /\ hpc' = "store"
                     /\ UNCHANGED <<accepted, accKeys>>
                ELSE AfterStore(r)
    /\ UNCHANGED <<env, kv, now, putsOk, posts, uuidSeen, uuidClash>>
    /\ UNCHANGED <<cvars, rvars, pvars>>

\* the value written: JSON of {email, note, ua, ip, at}
StoredValue(r, ms) ==
    [email |-> r.email, note |-> r.note, ua |-> Null, ip |-> Null, at |-> ms]

Put(key, value) ==
    [k \in DOMAIN kv \cup {key} |-> IF k = key THEN value ELSE kv[k]]

DrawUuid(u) ==
    /\ uuidSeen' = uuidSeen \cup {u}
    /\ uuidClash' = (uuidClash \/ u \in uuidSeen)

\* lines 21-28: the put resolves
StorePutOk(u) ==
    /\ hpc = "store"
    /\ DrawUuid(u)
    /\ LET key == KeyOf(now, u)
           r == [req EXCEPT !.key = key, !.puts = @ + 1]
       IN  /\ kv' = Put(key, StoredValue(req, now))
           /\ putsOk' = putsOk + 1
           /\ AfterStore(r)
    /\ UNCHANGED <<env, now, served, posts>>
    /\ UNCHANGED <<cvars, rvars, pvars>>

\* lines 21-28: the put rejects; control passes to the catch block
StorePutThrows(u) ==
    /\ hpc = "store"
    /\ DrawUuid(u)
    /\ LET r == [req EXCEPT !.puts = @ + 1]
       IN  Catch(r, "KV put failed")
    /\ UNCHANGED <<env, kv, now, served, putsOk, posts>>
    /\ UNCHANGED <<cvars, rvars, pvars>>

\* the body of the POST to https://api.resend.com/emails
MailOf(r) ==
    [to |-> <<env.NOTIFY_TO.v>>,
     subject |-> r.email,
     note |-> IF r.note # <<>> THEN EscapeLt(r.note) ELSE <<"(", "n", "o", "n", "e", ")">>]

\* lines 40-54, 60: the provider answers 2xx
FetchOk ==
    /\ hpc = "notify"
    /\ posts' = posts + 1
    /\ LET r == [req EXCEPT !.posts = @ + 1, !.r = "ok", !.mail = MailOf(req)]
       IN  Finish(r, Response200)
    /\ UNCHANGED <<env, kv, now, served, putsOk, uuidSeen, uuidClash>>
    /\ UNCHANGED <<cvars, rvars, pvars>>

\* lines 40-55: the provider answers non-2xx; the handler awaits r.text()
FetchNotOk ==
    /\ hpc = "notify"
    /\ posts' = posts + 1
    /\ req' = [req EXCEPT !.posts = @ + 1, !.r = "notok", !.mail = MailOf(req)]
    /\ hpc' = "text"
    /\ UNCHANGED <<env, kv, now, served, accepted, accKeys, putsOk, uuidSeen, uuidClash>>
    /\ UNCHANGED <<cvars, rvars, pvars>>

\* lines 40-52: fetch rejects; control passes to the catch block
FetchThrows ==
    /\ hpc = "notify"
    /\ posts' = posts + 1
    /\ LET r == [req EXCEPT !.posts = @ + 1, !.mail = MailOf(req)]
       IN  Catch(r, "fetch failed")
    /\ UNCHANGED <<env, kv, now, served, putsOk, uuidSeen, uuidClash>>
    /\ UNCHANGED <<cvars, rvars, pvars>>

\* lines 55-62: the error text is read and logged, then the 200 response
TextOk ==
    /\ hpc = "text"
    /\ LET r == [req EXCEPT !.logged = Append(@, "Resend failed")]
       IN  Finish(r, Response200)
    /\ UNCHANGED <<env, kv, now, served, putsOk, posts, uuidSeen, uuidClash>>
    /\ UNCHANGED <<cvars, rvars, pvars>>

\* line 55: r.text() rejects; control passes to the catch block
TextThrows ==
    /\ hpc = "text"
    /\ Catch(req, "body read failed")
    /\ UNCHANGED <<env, kv, now, served, putsOk, posts, uuidSeen, uuidClash>>
    /\ UNCHANGED <<cvars, rvars, pvars>>

\* the clock moves on
Tick ==
    /\ now < MaxTime
    /\ now' = now + 1
    /\ UNCHANGED <<env, kv, hpc, req, served, accepted, accKeys, putsOk, posts,
                   uuidSeen, uuidClash>>
    /\ UNCHANGED <<cvars, rvars, pvars>>

Next ==
    \/ \E b \in Bodies : Request(b)
    \/ \E u \in UUIDs : StorePutOk(u)
    \/ \E u \in UUIDs : StorePutThrows(u)
    \/ FetchOk
    \/ FetchNotOk
    \/ FetchThrows
    \/ TextOk
    \/ TextThrows
    \/ Tick

Spec == Init /\ [][Next]_vars

\* ------------------------------------------------- client form controller
InvalidStatus == [ok |-> FALSE, msg |-> "Please enter a valid email."]
ThanksStatus == [ok |-> TRUE, msg |-> "Thanks! We'll be in touch soon."]
WrongStatus == [ok |-> FALSE, msg |-> "Something went wrong. Please try again."]

TrapInputs == { <<>>, <<"x">> }
ClientNotes == { <<>>, <<"n">> }

\* onChange of the e-mail input
TypeEmail(s) ==
    /\ email # s
    /\ email' = s
    /\ UNCHANGED <<note, trap, isLoading, status, pending, fetchCount, submits, lastPath>>
    /\ UNCHANGED <<hvars, rvars, pvars>>

\* onChange of the note textarea
TypeNote(s) ==
    /\ note # s
    /\ note' = s
    /\ UNCHANGED <<email, trap, isLoading, status, pending, fetchCount, submits, lastPath>>
    /\ UNCHANGED <<hvars, rvars, pvars>>

\* onChange of the hidden trap input
FillTrap(s) ==
    /\ trap # s
    /\ trap' = s
    /\ UNCHANGED <<email, note, isLoading, status, pending, fetchCount, submits, lastPath>>
    /\ UNCHANGED <<hvars, rvars, pvars>>

\* the POST issued with the raising of the in-flight flag left out
SendRequest_noFlag ==
    /\ status' = Null
    /\ pending' = Append(pending, [email |-> email, note |-> note,
                                   source |-> "coming-soon"])
    /\ fetchCount' = fetchCount + 1
    /\ lastPath' = "sent"
    /\ UNCHANGED <<email, note, trap, isLoading>>

\* lines 146-153: the in-flight flag is set, the status cleared, the POST issued
SendRequest ==
    /\ isLoading' = TRUE
    /\ status' = Null
    /\ pending' = Append(pending, [email |-> email, note |-> note,
                                   source |-> "coming-soon"])
    /\ fetchCount' = fetchCount + 1
    /\ lastPath' = "sent"
    /\ UNCHANGED <<email, note, trap>>

\* handleSubmit without the trap check
handleSubmit_noTrap ==
    /\ submits < MaxSubmits
    /\ submits' = submits + 1
    /\ IF ~validateEmail(email)
       THEN /\ status' = InvalidStatus
            /\ lastPath' = IF trap # <<>> THEN "trap" ELSE "invalid"
            /\ UNCHANGED <<email, note, trap, isLoading, pending, fetchCount>>
       ELSE SendRequest
    /\ UNCHANGED <<hvars, pvars>>

\* handleSubmit raising the in-flight flag before it validates
handleSubmit_flagFirst ==
    /\ submits < MaxSubmits
    /\ submits' = submits + 1
    /\ IF trap # <<>>
       THEN /\ lastPath' = "trap"
            /\ UNCHANGED <<email, note, trap, isLoading, status, pending, fetchCount>>
       ELSE IF ~validateEmail(email)
            THEN /\ status' = InvalidStatus
                 /\ isLoading' = TRUE
                 /\ lastPath' = "invalid"
                 /\ UNCHANGED <<email, note, trap, pending, fetchCount>>
            ELSE SendRequest
    /\ UNCHANGED <<hvars, pvars>>

\* handleSubmit, lines 142-153: up to the await of fetch
handleSubmit ==
    /\ submits < MaxSubmits
    /\ submits' = submits + 1
    /\ IF trap # <<>>
       THEN /\ lastPath' = "trap"
            /\ UNCHANGED <<email, note, trap, isLoading, status, pending, fetchCount>>
       ELSE IF ~validateEmail(email)
            THEN /\ status' = InvalidStatus
                 /\ lastPath' = "invalid"
                 /\ UNCHANGED <<email, note, trap, isLoading, pending, fetchCount>>
            ELSE SendRequest
    /\ UNCHANGED <<hvars, pvars>>

\* the form's submit event: the submit control is disabled while isLoading
Submit ==
    /\ ~isLoading
    /\ handleSubmit
    /\ UNCHANGED rvars

Without(seq, i) == SubSeq(seq, 1, i - 1) \o SubSeq(seq, i + 1, Len(seq))

\* the success path with the clearing of the note left out
ResponseOk_keepNote(i) ==
    /\ i \in DOMAIN pending
    /\ pending' = Without(pending, i)
    /\ status' = ThanksStatus
    /\ email' = <<>>
    /\ isLoading' = FALSE
    /\ lastPath' = "ok"
    /\ UNCHANGED <<note, trap, fetchCount, submits>>
    /\ UNCHANGED <<hvars, rvars, pvars>>

\* lines 154-156, 159: the response has a success status
ResponseOk(i) ==
    /\ i \in DOMAIN pending
    /\ pending' = Without(pending, i)
    /\ status' = ThanksStatus
    /\ email' = <<>>
    /\ note' = <<>>
    /\ isLoading' = FALSE
    /\ lastPath' = "ok"
    /\ UNCHANGED <<trap, fetchCount, submits>>
    /\ UNCHANGED <<hvars, rvars, pvars>>

\* a non-success status answered by sending the request once more
ResponseNotOk_retry(i) ==
    /\ i \in DOMAIN pending
    /\ pending' = Append(Without(pending, i), pending[i])
    /\ fetchCount' = fetchCount + 1
    /\ status' = WrongStatus
    /\ lastPath' = "notok"
    /\ UNCHANGED <<email, note, trap, isLoading, submits>>
    /\ UNCHANGED <<hvars, rvars, pvars>>

\* lines 154, 157-159: a non-success status throws "Network error" into catch
ResponseNotOk(i) ==
    /\ i \in DOMAIN pending
    /\ pending' = Without(pending, i)
    /\ status' = WrongStatus
    /\ isLoading' = FALSE
    /\ lastPath' = "notok"
    /\ UNCHANGED <<email, note, trap, fetchCount, submits>>
    /\ UNCHANGED <<hvars, rvars, pvars>>

\* fetch rejects, with the release of the in-flight flag left out
RequestFails_noFinally(i) ==
    /\ i \in DOMAIN pending
    /\ pending' = Without(pending, i)
    /\ status' = WrongStatus
    /\ lastPath' = "threw"
    /\ UNCHANGED <<email, note, trap, isLoading, fetchCount, submits>>
    /\ UNCHANGED <<hvars, rvars, pvars>>

\* lines 149, 157-159: fetch rejects
RequestFails(i) ==
    /\ i \in DOMAIN pending
    /\ pending' = Without(pending, i)
    /\ status' = WrongStatus
    /\ isLoading' = FALSE
    /\ lastPath' = "threw"
    /\ UNCHANGED <<email, note, trap, fetchCount, submits>>
    /\ UNCHANGED <<hvars, rvars, pvars>>

InitClient ==
    /\ CInit
    /\ RInit
    /\ PInit
    /\ HInit
    /\ ~env.WAITLIST /\ ~NotifyConfigured /\ env.RESEND_API_KEY = env.NOTIFY_TO

NextClient ==
    \/ \E s \in EmailInputs : TypeEmail(s)
    \/ \E s \in ClientNotes : TypeNote(s)
    \/ \E s \in TrapInputs : FillTrap(s)
    \/ Submit
    \/ \E i \in 1..MaxSubmits : ResponseOk(i)
    \/ \E i \in 1..MaxSubmits : ResponseNotOk(i)
    \/ \E i \in 1..MaxSubmits : RequestFails(i)

SpecClient == InitClient /\ [][NextClient]_vars

\* ------------------------------- the submit control and its re-rendering
\* App renders again after a state change: the button gets disabled={isLoading}
Render ==
    /\ disabled # isLoading
    /\ disabled' = isLoading
    /\ UNCHANGED raced
    /\ UNCHANGED <<hvars, cvars, pvars>>

\* a submit event reaches the form whenever the control, as last rendered, is
\* enabled; handleSubmit itself does not look at isLoading
SubmitEvent ==
    /\ ~disabled
    /\ handleSubmit
    /\ raced' = (raced \/ isLoading)
    /\ UNCHANGED disabled

NextRace ==
    \/ \E s \in EmailInputs : TypeEmail(s)
    \/ \E s \in ClientNotes : TypeNote(s)
    \/ \E s \in TrapInputs : FillTrap(s)
    \/ SubmitEvent
    \/ Render
    \/ \E i \in 1..MaxSubmits : ResponseOk(i)
    \/ \E i \in 1..MaxSubmits : ResponseNotOk(i)
    \/ \E i \in 1..MaxSubmits : RequestFails(i)

SpecRace == InitClient /\ [][NextRace]_vars

\* ------------------------------------------- validateEmail on its own
Alphabet == {"a", "@", ".", " "}

\* every string over Alphabet of at most MaxLen characters
Strings == UNION {[1..n -> Alphabet] : n \in 0..MaxLen}

\* the arguments of the dev-only assertions, lines 489-492
DevTestInputs ==
    { <<"a", "@", "b", ".", "c", "o">>,
      <<"u", "s", "e", "r", "+", "t", "a", "g", "@",
        "d", "o", "m", "a", "i", "n", ".", "e", "d", "u">>,
      <<"n", "o", "-", "a", "t">>,
      <<"b", "a", "d", "@", "d", "o", "m", "a", "i", "n">> }

\* a call validateEmail(probe) returning
ValidateCall ==
    /\ verdict = "unchecked"
    /\ verdict' = IF validateEmail(probe) THEN "true" ELSE "false"
    /\ UNCHANGED probe
    /\ UNCHANGED <<hvars, cvars, rvars>>

InitValidate ==
    /\ CInit
    /\ RInit
    /\ HInit
    /\ ~env.WAITLIST /\ ~NotifyConfigured /\ env.RESEND_API_KEY = env.NOTIFY_TO
    /\ probe \in Strings \cup DevTestInputs
    /\ verdict = "unchecked"

NextValidate == ValidateCall

SpecValidate == InitValidate /\ [][NextValidate]_vars

\* ================================================================= claims
Done == hpc = "done"

\* the e-mail the handler validates, recomputed from the request body
EmailOfBody == CoerceTrim(Field(ParseBody(req.body), "email"))

StatusOf == req.responses[1].status

\* the e-mail string a body carries, when it carries one
RawEmail(body) ==
    IF body.kind = "json" /\ body.data.t = "object" /\ body.data.email.t = "string"
    THEN body.data.email.v
    ELSE <<>>

HasEmailString(body) ==
    body.kind = "json" /\ body.data.t = "object" /\ body.data.email.t = "string"

\* C1: a request whose trimmed e-mail passes the pattern is answered
\* 200 {ok:true} whatever the store put and the notification send do.
C1_ValidAlwaysAnswered200 ==
    (Done /\ EMAIL_RE_test(req.email)) => req.responses = <<Response200>>

\* C2: with a valid e-mail and notification configured, a non-2xx answer of
\* the e-mail provider leaves the handler's response at 200 {ok:true}.
C2_ProviderErrorStill200 ==
    (Done /\ NotifyConfigured /\ req.r = "notok") => req.responses = <<Response200>>

\* C3: a body whose e-mail fails the pattern after coercion and trimming (an
\* unparseable body counting as {}) is answered 400 "Invalid email", never
\* 500, with no store put and no provider call, whatever is configured.
C3_InvalidAnswered400NoEffects ==
    (Done /\ (req.body.kind = "garbage" \/ ~EMAIL_RE_test(EmailOfBody))) =>
        /\ req.responses = <<Response400>>
        /\ req.puts = 0 /\ req.key = NoKey
        /\ req.posts = 0 /\ req.r = "none"
        /\ req.caught = "none"

C3_Witness ==
    /\ Done /\ req.body.kind = "garbage"
    /\ env.WAITLIST /\ NotifyConfigured
    /\ req.responses = <<Response400>>
    /\ served = 2 /\ putsOk = 1 /\ posts = 1

C5_EffectsFollowConfiguration ==
    (Done /\ EMAIL_RE_test(req.email)) =>
        /\ req.puts = (IF env.WAITLIST THEN 1 ELSE 0)
        /\ req.posts = (IF NotifyConfigured THEN 1 ELSE 0)
        /\ (~env.WAITLIST /\ ~NotifyConfigured) => req.responses = <<Response200>>

\* C6: given that the random identifiers differ, every put goes to a key
\* waitlist:<ms>:<uuid> of its own and overwrites nothing: the store holds
\* one record per resolved put, each accepted submission has its own record
\* (also when timestamps coincide) and, with notification configured, made
\* its own notification attempt.
C6_DistinctKeysNoOverwrite ==
    ~uuidClash =>
        /\ \A k \in DOMAIN kv : Len(k) = 3 /\ k[1] = "waitlist"
        /\ Cardinality(DOMAIN kv) = putsOk
        /\ accKeys \subseteq DOMAIN kv
        /\ env.WAITLIST => Cardinality(accKeys) = accepted
        /\ NotifyConfigured => posts >= accepted
        /\ (Done /\ StatusOf = 200 /\ env.WAITLIST) =>
               /\ req.puts = 1
               /\ req.key \in DOMAIN kv
               /\ kv[req.key].email = req.email
        /\ (Done /\ StatusOf = 200 /\ NotifyConfigured) => req.posts = 1

C6_Witness ==
    /\ ~uuidClash /\ NotifyConfigured
    /\ accepted = 2 /\ posts = 2
    /\ \E k1, k2 \in accKeys :
          /\ k1 # k2
          /\ k1[2] = k2[2]
          /\ kv[k1] = kv[k2]

\* C7 as stated: the handler accepts (does not answer 400) exactly when the
\* client's validateEmail is true of the e-mail string as it stands in the body.
C7_AcceptsIffClientValidatesRaw ==
    (Done /\ HasEmailString(req.body)) =>
        ((StatusOf # 400) <=> validateEmail(RawEmail(req.body)))

\* C7 amended: the handler accepts exactly when the client's validateEmail is
\* true of the e-mail string with its surrounding whitespace trimmed.
C7_AcceptsIffClientValidatesTrimmed ==
    (Done /\ HasEmailString(req.body)) =>
        ((StatusOf # 400) <=> validateEmail(Trim(RawEmail(req.body))))

C7_Witness ==
    /\ Done /\ RawEmail(req.body) = PaddedEmail
    /\ ~validateEmail(RawEmail(req.body))
    /\ StatusOf = 200

\* C8: with a valid e-mail and both side effects configured, the provider
\* POST is attempted whether or not the put succeeds, and the put whether or
\* not the notification succeeds.
C8_SideEffectsIndependent ==
    (Done /\ EMAIL_RE_test(req.email) /\ env.WAITLIST /\ NotifyConfigured) =>
        (req.puts = 1 /\ req.posts = 1)

\* C9: a submit with a non-empty trap field issues no request and leaves the
\* status, the in-flight flag, the e-mail and the note as they were.
C9_TrapIsSilentNoOp ==
    [][(submits' = submits + 1 /\ trap # <<>>) =>
          /\ fetchCount' = fetchCount
          /\ pending' = pending
          /\ status' = status
          /\ isLoading' = isLoading
          /\ email' = email
          /\ note' = note]_vars

C9_Witness ==
    /\ lastPath = "trap" /\ trap # <<>>
    /\ validateEmail(email) /\ note # <<>>
    /\ fetchCount = 0 /\ status = Null /\ ~isLoading

\* C10: a submit with an empty trap field and an e-mail that fails the
\* pattern sets the status to "Please enter a valid email.", issues no
\* request, leaves the in-flight flag down and the fields as they were.
C10_InvalidEmailFailsLocally ==
    [][(submits' = submits + 1 /\ trap = <<>> /\ ~validateEmail(email)) =>
          /\ status' = InvalidStatus
          /\ fetchCount' = fetchCount
          /\ pending' = pending
          /\ ~isLoading'
          /\ isLoading' = isLoading
          /\ email' = email
          /\ note' = note]_vars

C10_Witness ==
    /\ lastPath = "invalid" /\ trap = <<>>
    /\ email = PaddedEmail /\ note # <<>>
    /\ status = InvalidStatus
    /\ fetchCount = 0 /\ ~isLoading

\* a step in which an awaited request settles and its handleSubmit call ends
Settles == Len(pending') < Len(pending)

\* C11: the in-flight flag is released on every exit path: when the request
\* of a submit settles (success status, non-success status or rejection)
\* isLoading is false, and it is false whenever no request is outstanding.
C11_LoadingReleasedOnEveryPath ==
    [][/\ Settles => ~isLoading'
       /\ pending' = <<>> => ~isLoading']_vars

C11_Witness ==
    /\ lastPath = "threw" /\ fetchCount = 1 /\ submits = 1
    /\ pending = <<>> /\ ~isLoading

\* a step in which handleSubmit is called
SubmitStep == submits' = submits + 1

\* C12 as stated: every submit not blocked by the trap issues exactly one
\* POST, and no other step issues one.
C12_OneRequestUnlessTrap ==
    [][/\ (SubmitStep /\ trap = <<>>) => fetchCount' = fetchCount + 1
       /\ (SubmitStep /\ trap # <<>>) => fetchCount' = fetchCount
       /\ ~SubmitStep => fetchCount' = fetchCount]_vars

\* C12 amended: a submit issues exactly one POST when the trap is empty and
\* the e-mail passes validateEmail, and none otherwise; no other step (a
\* failed response, a rejected fetch) issues one.
C12_OneRequestPerValidSubmit ==
    [][/\ (SubmitStep /\ trap = <<>> /\ validateEmail(email)) =>
              /\ fetchCount' = fetchCount + 1
              /\ pending' = Append(pending, [email |-> email, note |-> note,
                                             source |-> "coming-soon"])
       /\ (SubmitStep /\ ~(trap = <<>> /\ validateEmail(email))) =>
              /\ fetchCount' = fetchCount
              /\ pending' = pending
       /\ ~SubmitStep => fetchCount' = fetchCount]_vars

C12_Witness ==
    /\ submits = 2 /\ fetchCount = 2
    /\ lastPath = "notok" /\ pending = <<>>

\* C13: a submit that passes the trap and the validation clears the status
\* while its request is in flight; a success status then gives the thanks
\* status and empties the e-mail and the note; a non-success status or a
\* rejected fetch gives the "Something went wrong" status and leaves the
\* e-mail and the note as they are.
C13_OutcomeFixesFinalState ==
    [][/\ (SubmitStep /\ lastPath' = "sent") =>
              (status' = Null /\ isLoading' /\ email' = email /\ note' = note)
       /\ pending' # <<>> => status' = Null
       /\ (Settles /\ lastPath' = "ok") =>
              (status' = ThanksStatus /\ email' = <<>> /\ note' = <<>>)
       /\ (Settles /\ lastPath' \in {"notok", "threw"}) =>
              (status' = WrongStatus /\ email' = email /\ note' = note)
       /\ Settles => lastPath' \in {"ok", "notok", "threw"}]_vars

C13_Witness ==
    /\ lastPath = "notok" /\ status = WrongStatus
    /\ email = ValidEmail /\ note # <<>>
    /\ submits = 2 /\ fetchCount = 2 /\ pending = <<>>

HasNoWhitespace(s) == \A k \in 1..Len(s) : s[k] \notin Whitespace

HasNoAt(s) == \A k \in 1..Len(s) : s[k] # "@"

\* s has an "@" and no "." after its last "@"
NoDotAfterAt(s) ==
    \E i \in 1..Len(s) :
        /\ s[i] = "@"
        /\ \A k \in (i + 1)..Len(s) : s[k] \notin {"@", "."}

\* s = local @ domain . tld with the three parts non-empty
IsLocalAtDomainDotTld(s) ==
    \E i \in 2..Len(s) : \E j \in (i + 2)..(Len(s) - 1) :
        s[i] = "@" /\ s[j] = "."

\* the same with no "@" inside local, domain or tld
IsLocalAtDomainDotTldOneAt(s) ==
    /\ IsLocalAtDomainDotTld(s)
    /\ Cardinality({k \in 1..Len(s) : s[k] = "@"}) = 1

\* C14 as stated: validateEmail is true of every whitespace-free string
\* local@domain.tld with non-empty parts, false of every string without "@"
\* and of every string without "." after the "@".
C14_ValidateEmailByShape ==
    verdict # "unchecked" =>
        /\ (HasNoWhitespace(probe) /\ IsLocalAtDomainDotTld(probe)) => verdict = "true"
        /\ HasNoAt(probe) => verdict = "false"
        /\ NoDotAfterAt(probe) => verdict = "false"

\* C14 amended: the same, for parts local, domain and tld that hold no "@".
C14_ValidateEmailByShapeOneAt ==
    verdict # "unchecked" =>
        /\ (HasNoWhitespace(probe) /\ IsLocalAtDomainDotTldOneAt(probe)) => verdict = "true"
        /\ HasNoAt(probe) => verdict = "false"
        /\ NoDotAfterAt(probe) => verdict = "false"
        /\ probe = <<"a", "@", "b", ".", "c", "o">> => verdict = "true"
        /\ probe = <<"n", "o", "-", "a", "t">> => verdict = "false"

C14_Witness ==
    /\ verdict = "true"
    /\ Len(probe) = 19 /\ probe[5] = "+"
    /\ HasNoWhitespace(probe) /\ IsLocalAtDomainDotTldOneAt(probe)

\* C15: as long as every submit event was delivered with the control
\* re-rendered since the last change of isLoading, at most one request is in
\* flight and isLoading is true exactly while one is. (Once an event has come
\* before the re-render, neither holds: see C15_Witness.)
C15_OneInFlightWhileRendered ==
    ~raced =>
        /\ Len(pending) <= 1
        /\ isLoading <=> pending # <<>>

\* two submit events before the re-render: both requests went out, one has
\* settled and lowered isLoading while the other is still outstanding
C15_Witness ==
    /\ raced
    /\ submits = 2 /\ fetchCount = 2
    /\ Len(pending) = 1
    /\ ~isLoading

====
